---------------------------- MODULE Spec2Model ----------------------------
(***************************************************************************)
(* Model of app/main.py: the /video request path of the YouTube scraper    *)
(* API.  A request carries a URL; scrape_youtube_video extracts the video  *)
(* id, calls the yt-dlp collaborator, normalises the raw record, and the   *)
(* route handler turns the result or the exception into an HTTP outcome.   *)
(*                                                                         *)
(* Python strings are sequences of one-character strings, so that regex    *)
(* search, substring tests, decimal formatting and strptime/strftime are   *)
(* modelled character by character.  Python values are tagged records.     *)
(***************************************************************************)
EXTENDS Integers, Sequences, FiniteSets, TLC

VARIABLES pc, method, url, video_id, info, fetched, calls, outcome

vars == <<pc, method, url, video_id, info, fetched, calls, outcome>>

---------------------------------------------------------------------------
(* String literals of the source, as character sequences.                  *)

s_empty ==
    <<>>

L_watch ==
    <<"y", "o", "u", "t", "u", "b", "e", ".", "c", "o", "m", "/", "w", "a", "t", "c", "h", "?",
      "v", "=">>

L_youtu_be ==
    <<"y", "o", "u", "t", "u", ".", "b", "e", "/">>

L_shorts ==
    <<"y", "o", "u", "t", "u", "b", "e", ".", "c", "o", "m", "/", "s", "h", "o", "r", "t", "s",
      "/">>

L_embed ==
    <<"y", "o", "u", "t", "u", "b", "e", ".", "c", "o", "m", "/", "e", "m", "b", "e", "d", "/">>

L_v ==
    <<"y", "o", "u", "t", "u", "b", "e", ".", "c", "o", "m", "/", "v", "/">>

s_shorts_path ==
    <<"/", "s", "h", "o", "r", "t", "s", "/">>

s_thumb_base ==
    <<"h", "t", "t", "p", "s", ":", "/", "/", "i", ".", "y", "t", "i", "m", "g", ".", "c", "o",
      "m", "/", "v", "i", "/">>

s_default_jpg ==
    <<"/", "d", "e", "f", "a", "u", "l", "t", ".", "j", "p", "g">>

s_mqdefault_jpg ==
    <<"/", "m", "q", "d", "e", "f", "a", "u", "l", "t", ".", "j", "p", "g">>

s_hqdefault_jpg ==
    <<"/", "h", "q", "d", "e", "f", "a", "u", "l", "t", ".", "j", "p", "g">>

s_sddefault_jpg ==
    <<"/", "s", "d", "d", "e", "f", "a", "u", "l", "t", ".", "j", "p", "g">>

s_maxresdefault_jpg ==
    <<"/", "m", "a", "x", "r", "e", "s", "d", "e", "f", "a", "u", "l", "t", ".", "j", "p", "g">>

s_channel_base ==
    <<"h", "t", "t", "p", "s", ":", "/", "/", "w", "w", "w", ".", "y", "o", "u", "t", "u", "b",
      "e", ".", "c", "o", "m", "/", "c", "h", "a", "n", "n", "e", "l", "/">>

s_live ==
    <<"l", "i", "v", "e">>

s_none ==
    <<"n", "o", "n", "e">>

s_processed ==
    <<"p", "r", "o", "c", "e", "s", "s", "e", "d">>

s_public ==
    <<"p", "u", "b", "l", "i", "c">>

s_youtube ==
    <<"y", "o", "u", "t", "u", "b", "e">>

s_2d ==
    <<"2", "d">>

s_hd ==
    <<"h", "d">>

s_sd ==
    <<"s", "d">>

s_true ==
    <<"t", "r", "u", "e">>

s_false ==
    <<"f", "a", "l", "s", "e">>

s_rectangular ==
    <<"r", "e", "c", "t", "a", "n", "g", "u", "l", "a", "r">>

s_PT0S ==
    <<"P", "T", "0", "S">>

s_PT ==
    <<"P", "T">>

s_H ==
    <<"H">>

s_M ==
    <<"M">>

s_S ==
    <<"S">>

s_0 ==
    <<"0">>

s_None ==
    <<"N", "o", "n", "e">>

s_True ==
    <<"T", "r", "u", "e">>

s_False ==
    <<"F", "a", "l", "s", "e">>

s_embed_head ==
    <<"<", "i", "f", "r", "a", "m", "e", " ", "w", "i", "d", "t", "h", "=", "\"", "4", "8",
      "0", "\"", " ", "h", "e", "i", "g", "h", "t", "=", "\"", "2", "7", "0", "\"", " ", "s",
      "r", "c", "=", "\"", "/", "/", "w", "w", "w", ".", "y", "o", "u", "t", "u", "b", "e",
      ".", "c", "o", "m", "/", "e", "m", "b", "e", "d", "/">>

s_embed_tail ==
    <<"\"", " ", "f", "r", "a", "m", "e", "b", "o", "r", "d", "e", "r", "=", "\"", "0", "\"",
      " ", "a", "l", "l", "o", "w", "=", "\"", "a", "c", "c", "e", "l", "e", "r", "o", "m",
      "e", "t", "e", "r", ";", " ", "a", "u", "t", "o", "p", "l", "a", "y", ";", " ", "c", "l",
      "i", "p", "b", "o", "a", "r", "d", "-", "w", "r", "i", "t", "e", ";", " ", "e", "n", "c",
      "r", "y", "p", "t", "e", "d", "-", "m", "e", "d", "i", "a", ";", " ", "g", "y", "r", "o",
      "s", "c", "o", "p", "e", ";", " ", "p", "i", "c", "t", "u", "r", "e", "-", "i", "n", "-",
      "p", "i", "c", "t", "u", "r", "e", ";", " ", "w", "e", "b", "-", "s", "h", "a", "r", "e",
      "\"", " ", "r", "e", "f", "e", "r", "r", "e", "r", "p", "o", "l", "i", "c", "y", "=",
      "\"", "s", "t", "r", "i", "c", "t", "-", "o", "r", "i", "g", "i", "n", "-", "w", "h",
      "e", "n", "-", "c", "r", "o", "s", "s", "-", "o", "r", "i", "g", "i", "n", "\"", " ",
      "a", "l", "l", "o", "w", "f", "u", "l", "l", "s", "c", "r", "e", "e", "n", ">", "<", "/",
      "i", "f", "r", "a", "m", "e", ">">>

s_invalid_url ==
    <<"I", "n", "v", "a", "l", "i", "d", " ", "Y", "o", "u", "T", "u", "b", "e", " ", "U", "R",
      "L">>

s_failed_prefix ==
    <<"F", "a", "i", "l", "e", "d", " ", "t", "o", " ", "s", "c", "r", "a", "p", "e", " ", "v",
      "i", "d", "e", "o", ":", " ">>

u_https ==
    <<"h", "t", "t", "p", "s", ":", "/", "/">>

u_www ==
    <<"w", "w", "w", ".">>

u_example ==
    <<"e", "x", "a", "m", "p", "l", "e", ".", "c", "o", "m", "/">>

u_nocookie ==
    <<"y", "o", "u", "t", "u", "b", "e", "-", "n", "o", "c", "o", "o", "k", "i", "e", ".", "c",
      "o", "m", "/">>

u_watch ==
    <<"w", "a", "t", "c", "h", "?", "v", "=">>

u_shorts ==
    <<"s", "h", "o", "r", "t", "s", "/">>

u_embed ==
    <<"e", "m", "b", "e", "d", "/">>

u_v ==
    <<"v", "/">>

u_watch_feature ==
    <<"y", "o", "u", "t", "u", "b", "e", ".", "c", "o", "m", "/", "w", "a", "t", "c", "h", "?",
      "f", "e", "a", "t", "u", "r", "e", "=", "s", "h", "a", "r", "e", "&", "v", "=">>

u_amp_t ==
    <<"&", "t", "=", "4", "2">>

u_slash ==
    <<"/">>

id_A ==
    <<"d", "Q", "w", "4", "w", "9", "W", "g", "X", "c", "Q">>

id_B ==
    <<"a", "_", "b", "-", "C", "1", "d", "2", "E", "3", "f">>

id_C ==
    <<"a", "b", "c", "1", "2", "3", "4", "5", "6", "7", "8">>

id_short ==
    <<"d", "Q", "w", "4", "w", "9", "W", "g", "X", "c">>

id_bad ==
    <<"d", "Q", "w", "4", "w", ".", "W", "g", "X", "c", "Q">>

id_long ==
    <<"d", "Q", "w", "4", "w", "9", "W", "g", "X", "c", "Q", "Z">>

e_unavailable ==
    <<"V", "i", "d", "e", "o", " ", "u", "n", "a", "v", "a", "i", "l", "a", "b", "l", "e">>

e_timeout ==
    <<"t", "i", "m", "e", "d", " ", "o", "u", "t">>

t_Test ==
    <<"T", "e", "s", "t">>

t_Music ==
    <<"M", "u", "s", "i", "c">>

t_unlisted ==
    <<"u", "n", "l", "i", "s", "t", "e", "d">>

e_value ==
    <<"i", "n", "v", "a", "l", "i", "d", " ", "l", "i", "t", "e", "r", "a", "l", " ", "f", "o",
      "r", " ", "i", "n", "t", "(", ")", " ", "w", "i", "t", "h", " ", "b", "a", "s", "e", " ",
      "1", "0", ":", " ", "'", "'">>

e_unicode ==
    <<"'", "u", "t", "f", "-", "8", "'", " ", "c", "o", "d", "e", "c", " ", "c", "a", "n", "'",
      "t", " ", "d", "e", "c", "o", "d", "e", " ", "b", "y", "t", "e", " ", "0", "x", "f", "f",
      " ", "i", "n", " ", "p", "o", "s", "i", "t", "i", "o", "n", " ", "0", ":", " ", "i", "n",
      "v", "a", "l", "i", "d", " ", "s", "t", "a", "r", "t", " ", "b", "y", "t", "e">>

e_ge_not_supported ==
    <<"'", ">", "=", "'", " ", "n", "o", "t", " ", "s", "u", "p", "p", "o", "r", "t", "e", "d",
      " ", "b", "e", "t", "w", "e", "e", "n", " ", "i", "n", "s", "t", "a", "n", "c", "e", "s",
      " ", "o", "f", " ", "'", "N", "o", "n", "e", "T", "y", "p", "e", "'", " ", "a", "n", "d",
      " ", "'", "i", "n", "t", "'">>

e_gt_not_supported ==
    <<"'", ">", "'", " ", "n", "o", "t", " ", "s", "u", "p", "p", "o", "r", "t", "e", "d",
      " ", "b", "e", "t", "w", "e", "e", "n", " ", "i", "n", "s", "t", "a", "n", "c", "e", "s",
      " ", "o", "f", " ", "'", "N", "o", "n", "e", "T", "y", "p", "e", "'", " ", "a", "n", "d",
      " ", "'", "i", "n", "t", "'">>

---------------------------------------------------------------------------
(* Python values: None, int, bool, str, list of str, dict (by size).       *)

PyNone == [t |-> "none", i |-> 0, s |-> <<>>, l |-> <<>>]

PyInt(n) == [t |-> "int", i |-> n, s |-> <<>>, l |-> <<>>]

PyBool(b) == [t |-> "bool", i |-> IF b THEN 1 ELSE 0, s |-> <<>>, l |-> <<>>]

PyStr(cs) == [t |-> "str", i |-> 0, s |-> cs, l |-> <<>>]

PyList(xs) == [t |-> "list", i |-> 0, s |-> <<>>, l |-> xs]

PyDict(n) == [t |-> "dict", i |-> n, s |-> <<>>, l |-> <<>>]

IsNumber(v) == v.t \in {"int", "bool"}

(* bool(v) *)
Truthy(v) ==
    CASE v.t = "none" -> FALSE
      [] v.t \in {"int", "bool", "dict"} -> v.i # 0
      [] v.t = "str" -> v.s # <<>>
      [] v.t = "list" -> v.l # <<>>

(* a or b *)
PyOr(a, b) == IF Truthy(a) THEN a ELSE b

(* a == b *)
PyEq(a, b) == IF IsNumber(a) /\ IsNumber(b) THEN a.i = b.i ELSE a = b

(* info.get(k, d) *)
Get(d, k, default) == IF k \in DOMAIN d THEN d[k] ELSE default

DigitChars == <<"0", "1", "2", "3", "4", "5", "6", "7", "8", "9">>

RECURSIVE DecStr(_)
(* str(n) for an int n *)
DecStr(n) ==
    IF n < 0 THEN <<"-">> \o DecStr(-n)
    ELSE IF n < 10 THEN <<DigitChars[n + 1]>>
    ELSE DecStr(n \div 10) \o <<DigitChars[(n % 10) + 1]>>

(* str(v) *)
PyStrOf(v) ==
    CASE v.t = "none" -> s_None
      [] v.t = "int" -> DecStr(v.i)
      [] v.t = "bool" -> IF v.i = 1 THEN s_True ELSE s_False
      [] v.t = "str" -> v.s
      [] OTHER -> <<"[", "]">>

(* needle in haystack *)
Contains(hay, needle) ==
    \E p \in 1..(Len(hay) - Len(needle) + 1) :
        SubSeq(hay, p, p + Len(needle) - 1) = needle

---------------------------------------------------------------------------
(* extract_video_id                                                        *)

IdLen == 11

IdChars ==
    {"a", "b", "c", "d", "e", "f", "g", "h", "i", "j", "k", "l", "m", "n", "o", "p", "q",
     "r", "s", "t", "u", "v", "w", "x", "y", "z",
     "A", "B", "C", "D", "E", "F", "G", "H", "I", "J", "K", "L", "M", "N", "O", "P", "Q",
     "R", "S", "T", "U", "V", "W", "X", "Y", "Z",
     "0", "1", "2", "3", "4", "5", "6", "7", "8", "9", "_", "-"}

(* The patterns without their youtube.com host part. *)
patterns_any_host == << <<u_watch, L_youtu_be, u_shorts>>, <<u_embed>>, <<u_slash \o u_v>> >>

(* The three regular expressions: each a list of literal alternatives, every   *)
(* alternative followed by the group ([a-zA-Z0-9_-]{11}).                      *)
patterns == << <<L_watch, L_youtu_be, L_shorts>>, <<L_embed>>, <<L_v>> >>

(* The literal lit followed by IdLen id characters matches at position p.  *)
MatchesAt(lit, str, p) ==
    /\ p + Len(lit) + IdLen - 1 <= Len(str)
    /\ SubSeq(str, p, p + Len(lit) - 1) = lit
    /\ \A k \in 0..(IdLen - 1) : str[p + Len(lit) + k] \in IdChars

Group1(lit, str, p) == PyStr(SubSeq(str, p + Len(lit), p + Len(lit) + IdLen - 1))

RECURSIVE MatchAlternatives(_, _, _, _)
(* The regex engine at one position: the alternatives in order.            *)
MatchAlternatives(alts, a, str, p) ==
    IF a > Len(alts) THEN PyNone
    ELSE IF MatchesAt(alts[a], str, p) THEN Group1(alts[a], str, p)
    ELSE MatchAlternatives(alts, a + 1, str, p)

RECURSIVE re_search_from(_, _, _)
(* re.search: the start positions from left to right.                      *)
re_search_from(alts, str, p) ==
    IF p > Len(str) THEN PyNone
    ELSE LET m == MatchAlternatives(alts, 1, str, p)
         IN  IF m # PyNone THEN m ELSE re_search_from(alts, str, p + 1)

re_search(alts, str) == re_search_from(alts, str, 1)

RECURSIVE extract_from(_, _)
extract_from(k, str) ==
    IF k > Len(patterns) THEN PyNone
    ELSE LET match == re_search(patterns[k], str)
         IN  IF match # PyNone THEN match ELSE extract_from(k + 1, str)

(* One search over all alternatives at once: the leftmost match of any pattern. *)
extract_video_id_leftmost(str) ==
    re_search(<<L_watch, L_youtu_be, L_shorts, L_embed, L_v>>, str)

extract_video_id(str) == extract_from(1, str)

---------------------------------------------------------------------------
(* format_duration                                                         *)

SecondsPerHour == 3600

SecondsPerMinute == 60

(* The seconds component kept whenever hours is zero. *)
format_duration_secs_unless_hours(seconds) ==
    IF ~Truthy(seconds) THEN s_PT0S
    ELSE LET hours == seconds.i \div SecondsPerHour
             minutes == (seconds.i % SecondsPerHour) \div SecondsPerMinute
             secs == seconds.i % SecondsPerMinute
             d0 == s_PT
             d1 == IF hours # 0 THEN d0 \o DecStr(hours) \o s_H ELSE d0
             d2 == IF minutes # 0 THEN d1 \o DecStr(minutes) \o s_M ELSE d1
             d3 == IF secs # 0 \/ hours = 0 THEN d2 \o DecStr(secs) \o s_S ELSE d2
         IN  d3

format_duration(seconds) ==
    IF ~Truthy(seconds) THEN s_PT0S
    ELSE LET hours == seconds.i \div SecondsPerHour
             minutes == (seconds.i % SecondsPerHour) \div SecondsPerMinute
             secs == seconds.i % SecondsPerMinute
             d0 == s_PT
             d1 == IF hours # 0 THEN d0 \o DecStr(hours) \o s_H ELSE d0
             d2 == IF minutes # 0 THEN d1 \o DecStr(minutes) \o s_M ELSE d1
             d3 == IF secs # 0 \/ (hours = 0 /\ minutes = 0)
                   THEN d2 \o DecStr(secs) \o s_S ELSE d2
         IN  d3

---------------------------------------------------------------------------
(* get_thumbnail_urls                                                      *)

Thumbnail(id, suffix, w, h) ==
    [url |-> PyStr(s_thumb_base \o PyStrOf(id) \o suffix), width |-> w, height |-> h]

get_thumbnail_urls(id) ==
    [default |-> Thumbnail(id, s_default_jpg, 120, 90),
     medium |-> Thumbnail(id, s_mqdefault_jpg, 320, 180),
     high |-> Thumbnail(id, s_hqdefault_jpg, 480, 360),
     standard |-> Thumbnail(id, s_sddefault_jpg, 640, 480),
     maxres |-> Thumbnail(id, s_maxresdefault_jpg, 1280, 720)]

---------------------------------------------------------------------------
(* datetime.strptime(upload_date, '%Y%m%d') and                            *)
(* .strftime('%Y-%m-%dT%H:%M:%SZ')                                         *)

D09 == {"0", "1", "2", "3", "4", "5", "6", "7", "8", "9"}

D19 == D09 \ {"0"}

(* %m is 1[0-2]|0[1-9]|[1-9]; %d is 3[0-1]|[1-2]\d|0[1-9]|[1-9]| [1-9]:    *)
(* each alternative a sequence of character classes.                       *)
month_alts == << <<{"1"}, {"0", "1", "2"}>>, <<{"0"}, D19>>, <<D19>> >>

day_alts == << <<{"3"}, {"0", "1"}>>, <<{"1", "2"}, D09>>, <<{"0"}, D19>>, <<D19>>, <<{" "}, D19>> >>

DigitVal(c) == IF c \in D09 THEN (CHOOSE k \in 0..9 : DigitChars[k + 1] = c) ELSE 0

RECURSIVE NumVal(_)
(* int() of the matched group (a leading blank counts for nothing) *)
NumVal(cs) ==
    IF cs = <<>> THEN 0
    ELSE 10 * NumVal(SubSeq(cs, 1, Len(cs) - 1)) + DigitVal(cs[Len(cs)])

ClassesMatchAt(classes, str, p) ==
    /\ p + Len(classes) - 1 <= Len(str)
    /\ \A k \in 1..Len(classes) : str[p + k - 1] \in classes[k]

YearLen == 4

(* The pairs (month alternative, day alternative) with which the format's  *)
(* regex \d\d\d\d(month)(day) matches a prefix of str.                     *)
DateMatches(str) ==
    IF ~ClassesMatchAt(<<D09, D09, D09, D09>>, str, 1) THEN {}
    ELSE {c \in (1..Len(month_alts)) \X (1..Len(day_alts)) :
            /\ ClassesMatchAt(month_alts[c[1]], str, YearLen + 1)
            /\ ClassesMatchAt(day_alts[c[2]], str, YearLen + 1 + Len(month_alts[c[1]]))}

(* The backtracking engine takes the first pair in alternative order.      *)
FirstDateMatch(str) ==
    CHOOSE c \in DateMatches(str) :
        \A e \in DateMatches(str) : c[1] < e[1] \/ (c[1] = e[1] /\ c[2] <= e[2])

IsLeap(y) == y % 4 = 0 /\ (y % 100 # 0 \/ y % 400 = 0)

DaysInMonth(y, m) ==
    IF m = 2 THEN (IF IsLeap(y) THEN 29 ELSE 28)
    ELSE IF m \in {4, 6, 9, 11} THEN 30 ELSE 31

(* [ok, year, month, day]; ok = FALSE stands for the ValueError (no match,   *)
(* unconverted data, year 0, day out of range) or the TypeError (not a str). *)
strptime(v) ==
    LET bad == [ok |-> FALSE, year |-> 0, month |-> 0, day |-> 0]
    IN  IF v.t # "str" \/ DateMatches(v.s) = {} THEN bad
        ELSE LET c == FirstDateMatch(v.s)
                 ml == Len(month_alts[c[1]])
                 dl == Len(day_alts[c[2]])
                 y == NumVal(SubSeq(v.s, 1, YearLen))
                 m == NumVal(SubSeq(v.s, YearLen + 1, YearLen + ml))
                 d == NumVal(SubSeq(v.s, YearLen + ml + 1, YearLen + ml + dl))
             IN  IF YearLen + ml + dl # Len(v.s) THEN bad
                 ELSE IF y < 1 \/ d > DaysInMonth(y, m) THEN bad
                 ELSE [ok |-> TRUE, year |-> y, month |-> m, day |-> d]

RECURSIVE ZeroPad(_, _)
ZeroPad(cs, w) == IF Len(cs) >= w THEN cs ELSE ZeroPad(<<"0">> \o cs, w)

(* %Y: the C library decides whether a year below 1000 is zero-padded      *)
(* (glibc does not pad), so both outcomes are possible.                    *)
strftime_year(y) == IF y >= 1000 THEN {DecStr(y)} ELSE {DecStr(y), ZeroPad(DecStr(y), YearLen)}

(* strftime('%Y-%m-%dT%H:%M:%SZ') of a date at midnight *)
strftime(dt) ==
    {ys \o <<"-">> \o ZeroPad(DecStr(dt.month), 2) \o <<"-">> \o ZeroPad(DecStr(dt.day), 2)
        \o <<"T">> \o ZeroPad(DecStr(0), 2) \o <<":">> \o ZeroPad(DecStr(0), 2)
        \o <<":">> \o ZeroPad(DecStr(0), 2) \o <<"Z">> : ys \in strftime_year(dt.year)}

(* The date test written as "is not None" instead of truthiness. *)
formatted_dates_not_none(raw) ==
    LET upload_date == Get(raw, "upload_date", PyStr(s_empty))
    IN  IF upload_date # PyNone
        THEN IF strptime(upload_date).ok
             THEN {PyStr(f) : f \in strftime(strptime(upload_date))}
             ELSE {upload_date}
        ELSE {PyNone}

(* lines 125-132: the values formatted_date can take *)
formatted_dates(raw) ==
    LET upload_date == Get(raw, "upload_date", PyStr(s_empty))
    IN  IF Truthy(upload_date)
        THEN IF strptime(upload_date).ok
             THEN {PyStr(f) : f \in strftime(strptime(upload_date))}
             ELSE {upload_date}
        ELSE {PyNone}

---------------------------------------------------------------------------
(* scrape_youtube_video, lines 121-208: the normalisation of the raw record *)

ShortMax == 60

HdMinHeight == 720

is_short(raw, str) ==
    IF Contains(str, s_shorts_path) THEN PyBool(TRUE)
    ELSE LET d == Get(raw, "duration", PyInt(0))
         IN  IF Truthy(d) THEN PyBool(d.i <= ShortMax) ELSE d

(* The raw records here hold a duration that is None or an int and          *)
(* categories that are None or a list, so that the expressions that can     *)
(* raise are the comparisons of line 178 (height >= 720) and line 201       *)
(* (age_limit > 0): TypeError when the value is not a number.               *)
normalize_raises(raw) ==
    \/ ~IsNumber(Get(raw, "height", PyInt(0)))
    \/ ~IsNumber(Get(raw, "age_limit", PyInt(0)))

(* The dict literal is evaluated top down: line 178 before line 201. *)
normalize_exception(raw) ==
    IF ~IsNumber(Get(raw, "height", PyInt(0)))
    THEN [cls |-> "TypeError", msg |-> e_ge_not_supported]
    ELSE [cls |-> "TypeError", msg |-> e_gt_not_supported]

category_id(raw) ==
    LET cats == Get(raw, "categories", PyNone)
    IN  IF Truthy(cats)
        THEN PyStr(IF cats.t = "list" THEN cats.l[1] ELSE <<cats.s[1]>>)
        ELSE PyNone

channel_url(raw) ==
    LET channel_id == Get(raw, "channel_id", PyStr(s_empty))
    IN  PyOr(Get(raw, "channel_url", PyStr(s_empty)),
             IF Truthy(channel_id) THEN PyStr(s_channel_base \o PyStrOf(channel_id))
             ELSE PyStr(s_empty))

privacy_status(raw) ==
    IF PyEq(Get(raw, "availability", PyNone), PyStr(s_public)) THEN PyStr(s_public)
    ELSE Get(raw, "availability", PyStr(s_public))

Counter(raw, k) == PyStr(PyStrOf(PyOr(Get(raw, k, PyInt(0)), PyInt(0))))

response(raw, str, id, formatted_date) ==
    [videoId |-> id,
     isShort |-> is_short(raw, str),
     snippet |->
        [publishedAt |-> formatted_date,
         channelId |-> Get(raw, "channel_id", PyStr(s_empty)),
         channelUrl |-> channel_url(raw),
         title |-> Get(raw, "title", PyStr(s_empty)),
         description |-> Get(raw, "description", PyStr(s_empty)),
         thumbnails |-> get_thumbnail_urls(id),
         channelTitle |-> PyOr(Get(raw, "channel", PyStr(s_empty)),
                               Get(raw, "uploader", PyStr(s_empty))),
         categoryId |-> category_id(raw),
         liveBroadcastContent |->
            IF Truthy(Get(raw, "is_live", PyNone)) THEN PyStr(s_live) ELSE PyStr(s_none),
         defaultLanguage |-> Get(raw, "language", PyNone),
         localized |-> [title |-> Get(raw, "title", PyStr(s_empty)),
                        description |-> Get(raw, "description", PyStr(s_empty))],
         defaultAudioLanguage |-> Get(raw, "language", PyNone),
         tags |-> Get(raw, "tags", PyList(<<>>))],
     statistics |->
        [viewCount |-> Counter(raw, "view_count"),
         likeCount |-> Counter(raw, "like_count"),
         favoriteCount |-> PyStr(s_0),
         commentCount |-> Counter(raw, "comment_count")],
     status |->
        [uploadStatus |-> PyStr(s_processed),
         privacyStatus |-> privacy_status(raw),
         license |-> PyStr(s_youtube),
         embeddable |-> PyBool(TRUE),
         publicStatsViewable |-> PyBool(TRUE),
         madeForKids |->
            PyBool(PyEq(Get(raw, "is_age_restricted", PyBool(FALSE)), PyBool(FALSE)))],
     contentDetails |->
        [duration |-> PyStr(format_duration(Get(raw, "duration", PyInt(0)))),
         durationSeconds |-> Get(raw, "duration", PyInt(0)),
         dimension |-> PyStr(s_2d),
         definition |->
            IF Get(raw, "height", PyInt(0)).i >= HdMinHeight THEN PyStr(s_hd) ELSE PyStr(s_sd),
         caption |->
            IF Truthy(PyOr(Get(raw, "subtitles", PyNone), Get(raw, "automatic_captions", PyNone)))
            THEN PyStr(s_true) ELSE PyStr(s_false),
         licensedContent |-> PyBool(TRUE),
         contentRating |-> PyDict(0),
         projection |-> PyStr(s_rectangular)],
     player |-> [embedHtml |-> PyStr(s_embed_head \o PyStrOf(id) \o s_embed_tail)],
     channel |->
        [id |-> Get(raw, "channel_id", PyStr(s_empty)),
         title |-> PyOr(Get(raw, "channel", PyStr(s_empty)),
                        Get(raw, "uploader", PyStr(s_empty))),
         customUrl |-> Get(raw, "uploader_url", PyStr(s_empty)),
         subscriberCount |-> Counter(raw, "channel_follower_count"),
         thumbnails |->
            [default |-> [url |-> PyOr(Get(raw, "channel_thumbnail", PyStr(s_empty)),
                                       PyStr(s_empty)),
                          width |-> 88, height |-> 88]]],
     additionalInfo |->
        [ageRestricted |-> PyBool(Get(raw, "age_limit", PyInt(0)).i > 0),
         availableCountries |-> Get(raw, "availability", PyNone),
         webpage_url |-> Get(raw, "webpage_url", PyStr(s_empty)),
         originalUrl |-> PyStr(str)]]

---------------------------------------------------------------------------
(* Exceptions and the route handlers                                        *)

Ancestors ==
    [ValueError |-> {"Exception"},
     UnicodeDecodeError |-> {"UnicodeError", "ValueError", "Exception"},
     TypeError |-> {"Exception"},
     TimeoutError |-> {"OSError", "Exception"},
     DownloadError |-> {"YoutubeDLError", "Exception"}]

IsInstance(exc, cls) == exc.cls = cls \/ cls \in Ancestors[exc.cls]

Raised(exc) == [raised |-> TRUE, exc |-> exc, value |-> <<>>]

Returned(data) == [raised |-> FALSE, exc |-> [cls |-> "Exception", msg |-> <<>>], value |-> <<data>>]

(* No response yet. *)
Pending == [status |-> 0, success |-> FALSE, data |-> <<>>, detail |-> <<>>]

(* VideoResponse(success=True, data=data), sent with status 200 *)
VideoResponse(data) == [status |-> 200, success |-> TRUE, data |-> <<data>>, detail |-> <<>>]

HTTPException(status_code, detail) ==
    [status |-> status_code, success |-> FALSE, data |-> <<>>, detail |-> detail]

(* The try/except of the GET /video handler around scrape_youtube_video(url). *)
get_video_by_query(r) ==
    IF ~r.raised THEN VideoResponse(r.value[1])
    ELSE IF IsInstance(r.exc, "ValueError") THEN HTTPException(400, r.exc.msg)
    ELSE HTTPException(500, s_failed_prefix \o r.exc.msg)

(* The try/except of the POST /video handler around scrape_youtube_video(request.url). *)
get_video_by_body(r) ==
    IF ~r.raised THEN VideoResponse(r.value[1])
    ELSE IF IsInstance(r.exc, "ValueError") THEN HTTPException(400, r.exc.msg)
    ELSE HTTPException(500, s_failed_prefix \o r.exc.msg)

Methods == {"GET", "POST"}

Handle(m, r) == IF m = "GET" THEN get_video_by_query(r) ELSE get_video_by_body(r)

---------------------------------------------------------------------------
(* Inputs: request URLs, raw records and collaborator errors.              *)

Absent == [t |-> "absent", i |-> 0, s |-> <<>>, l |-> <<>>]

(* The dict holding the keys of f whose option is not Absent. *)
MkInfo(f) == [k \in {x \in DOMAIN f : f[x] # Absent} |-> f[k]]

EmptyInfo == MkInfo([duration |-> Absent])

(* The errors ydl.extract_info raises. *)
ExtractionErrors ==
    {[cls |-> "DownloadError", msg |-> e_unavailable],
     [cls |-> "TimeoutError", msg |-> e_timeout],
     [cls |-> "ValueError", msg |-> e_value],
     [cls |-> "UnicodeDecodeError", msg |-> e_unicode]}

url_watch == u_https \o u_www \o L_watch \o id_A

url_shorts == u_https \o u_www \o L_shorts \o id_B

url_other_host == u_https \o u_example \o u_watch \o id_A

Urls == {url_watch, url_shorts, url_other_host, u_https \o u_example}

(* The record of the end-to-end scenario. *)
ScenarioInfo ==
    MkInfo([title |-> PyStr(t_Test), duration |-> PyInt(125), view_count |-> PyInt(100),
            upload_date |-> PyStr(<<"2", "0", "2", "3", "0", "6", "1", "5">>),
            availability |-> PyStr(s_public)])

Infos ==
    {MkInfo(f) : f \in
        [duration : {Absent, PyNone} \cup {PyInt(n) : n \in {0, ShortMax, ShortMax + 1}},
         height : {Absent, PyNone, PyInt(HdMinHeight)},
         age_limit : {Absent, PyNone, PyInt(18)},
         availability : {Absent, PyNone, PyStr(s_public), PyStr(t_unlisted)},
         upload_date : {Absent, PyStr(<<"2", "0", "2", "3", "0", "6", "1", "5">>)},
         categories : {Absent, PyNone, PyList(<<t_Music>>)},
         view_count : {Absent, PyNone, PyInt(100)}]}
        \cup {ScenarioInfo}

---------------------------------------------------------------------------
(* The request: state and steps.                                           *)

Init ==
    /\ pc = "idle"
    /\ method = "GET"
    /\ url = <<>>
    /\ video_id = PyNone
    /\ info = EmptyInfo
    /\ fetched = FALSE
    /\ calls = 0
    /\ outcome = Pending

(* A client sends GET /video?url=u or POST /video {"url": u}. *)
Request(U) ==
    /\ pc = "idle"
    /\ \E m \in Methods, u \in U : method' = m /\ url' = u
    /\ pc' = "scrape"
    /\ UNCHANGED <<video_id, info, fetched, calls, outcome>>

(* The id check left out: the collaborator is called whatever the id. *)
ExtractIdUnchecked ==
    /\ pc = "scrape"
    /\ video_id' = extract_video_id(url)
    /\ outcome' = outcome
    /\ pc' = "extract_info"
    /\ UNCHANGED <<method, url, info, fetched, calls>>

(* scrape_youtube_video, lines 102-104: the id, or ValueError to the handler. *)
ExtractId ==
    /\ pc = "scrape"
    /\ video_id' = extract_video_id(url)
    /\ IF ~Truthy(video_id')
       THEN /\ outcome' = Handle(method, Raised([cls |-> "ValueError", msg |-> s_invalid_url]))
            /\ pc' = "done"
       ELSE /\ outcome' = outcome
            /\ pc' = "extract_info"
    /\ UNCHANGED <<method, url, info, fetched, calls>>

(* lines 118-119: ydl.extract_info(url, download=False) returns a raw record. *)
ExtractInfoReturns(I) ==
    /\ pc = "extract_info"
    /\ \E raw \in I : info' = raw
    /\ fetched' = TRUE
    /\ calls' = calls + 1
    /\ pc' = "normalize"
    /\ UNCHANGED <<method, url, video_id, outcome>>

(* A failed extraction tried once more before the handler answers. *)
ExtractInfoRaisesRetry ==
    /\ pc = "extract_info"
    /\ calls' = calls + 1
    /\ IF calls = 0
       THEN outcome' = outcome /\ pc' = "extract_info"
       ELSE /\ \E exc \in ExtractionErrors : outcome' = Handle(method, Raised(exc))
            /\ pc' = "done"
    /\ UNCHANGED <<method, url, video_id, info, fetched>>

(* lines 118-119: ydl.extract_info raises; the handler answers. *)
ExtractInfoRaises ==
    /\ pc = "extract_info"
    /\ calls' = calls + 1
    /\ \E exc \in ExtractionErrors : outcome' = Handle(method, Raised(exc))
    /\ pc' = "done"
    /\ UNCHANGED <<method, url, video_id, info, fetched>>

(* lines 121-208 and the handler's return: the response, or the TypeError. *)
Normalize ==
    /\ pc = "normalize"
    /\ IF normalize_raises(info)
       THEN outcome' = Handle(method, Raised(normalize_exception(info)))
       ELSE \E fd \in formatted_dates(info) :
                outcome' = Handle(method, Returned(response(info, url, video_id, fd)))
    /\ pc' = "done"
    /\ UNCHANGED <<method, url, video_id, info, fetched, calls>>

Next ==
    \/ Request(Urls)
    \/ ExtractId
    \/ ExtractInfoReturns(Infos)
    \/ ExtractInfoRaises
    \/ Normalize

Spec == Init /\ [][Next]_vars

---------------------------------------------------------------------------
(* The same request over wider inputs: URLs for extract_video_id, durations *)
(* for format_duration, upload dates for the publishedAt rule.              *)

UrlPrefixes == {<<>>, u_https, u_https \o u_www}

UrlForms ==
    {L_watch, L_youtu_be, L_shorts, L_embed, L_v,
     u_example \o u_watch, u_example \o u_shorts, u_example \o u_embed, u_example \o u_v,
     u_nocookie \o u_embed, u_watch_feature, u_example}

UrlIds == {id_A, id_B, id_short, id_bad, id_long}

UrlTails ==
    {<<>>, u_amp_t}
        \cup {u_slash \o f \o i : f \in {L_watch, L_youtu_be, L_shorts, L_embed, L_v,
                                         u_example \o u_watch},
                                  i \in {id_B, id_C}}

UrlUniverse == {p \o f \o i \o t : p \in UrlPrefixes, f \in UrlForms, i \in UrlIds, t \in UrlTails}

UrlInfos == {EmptyInfo}

NextUrl ==
    \/ Request(UrlUniverse)
    \/ ExtractId
    \/ ExtractInfoReturns(UrlInfos)
    \/ ExtractInfoRaises
    \/ Normalize

SpecUrl == Init /\ [][NextUrl]_vars

MaxSeconds == 7325

DurationInfos ==
    {EmptyInfo, MkInfo([duration |-> PyNone])}
        \cup {MkInfo([duration |-> PyInt(n)]) : n \in (0..MaxSeconds) \cup {36000, 86399, 86400, 360000}}

NextDuration ==
    \/ Request({url_watch})
    \/ ExtractId
    \/ ExtractInfoReturns(DurationInfos)
    \/ ExtractInfoRaises
    \/ Normalize

SpecDuration == Init /\ [][NextDuration]_vars

DateYears ==
    {<<"2", "0", "2", "3">>, <<"2", "0", "2", "4">>, <<"1", "9", "0", "0">>,
     <<"2", "0", "0", "0">>, <<"0", "9", "9", "9">>, <<"0", "0", "0", "0">>}

DateMonths ==
    {<<"0", "1">>, <<"1">>, <<"0", "2">>, <<"2">>, <<"0", "6">>, <<"6">>, <<"1", "0">>,
     <<"1", "2">>, <<"1", "3">>, <<"0", "0">>, <<"0">>, <<>>}

DateDays ==
    {<<"0", "1">>, <<"1">>, <<"1", "5">>, <<"2", "8">>, <<"2", "9">>, <<"3", "0">>,
     <<"3", "1">>, <<"3", "2">>, <<"0", "0">>, <<" ", "5">>, <<"5">>, <<>>}

DateTails == {<<>>, <<"x">>}

DateStrings ==
    {y \o m \o d \o t : y \in DateYears, m \in DateMonths, d \in DateDays, t \in DateTails}
        \cup {<<>>, <<"2", "0", "2", "3">>, <<"2", "0", "2", "3", "-", "0", "6", "-", "1", "5">>}

DateInfos ==
    {EmptyInfo}
        \cup {MkInfo([upload_date |-> v]) :
                v \in {PyNone, PyInt(20230615)} \cup {PyStr(cs) : cs \in DateStrings}}

NextDate ==
    \/ Request({url_watch})
    \/ ExtractId
    \/ ExtractInfoReturns(DateInfos)
    \/ ExtractInfoRaises
    \/ Normalize

SpecDate == Init /\ [][NextDate]_vars

---------------------------------------------------------------------------
(* Properties.                                                             *)

TopLevelKeys ==
    {"videoId", "isShort", "snippet", "statistics", "status", "contentDetails", "player",
     "channel", "additionalInfo"}

Done == pc = "done"

IdExtracted == pc \notin {"idle", "scrape"}

Succeeded == pc = "done" /\ outcome.status = 200

(* The raw field k as the collaborator delivered it. *)
Raw(k) == Get(info, k, Absent)

(* C1: once the collaborator has returned a raw record, whatever fields are *)
(* absent, null or set, the request ends with a response holding all nine   *)
(* top-level keys and no error.                                             *)
C1_NormalizationTotal ==
    (Done /\ fetched) =>
        /\ outcome.success
        /\ Len(outcome.data) = 1
        /\ DOMAIN outcome.data[1] = TopLevelKeys

(* C2: a request whose URL yields no video id ends with HTTP 400 and the    *)
(* message "Invalid YouTube URL", and extract_info is never invoked in it.  *)
C2_FailFast ==
    (IdExtracted /\ video_id = PyNone) =>
        /\ calls = 0
        /\ ~fetched
        /\ Done
        /\ outcome.status = 400
        /\ outcome.detail = s_invalid_url
        /\ ~outcome.success

C2_Witness ==
    /\ Done
    /\ video_id = PyNone
    /\ Contains(url, u_example)
    /\ outcome.status = 400
    /\ calls = 0

(* C3: with a valid video id, a failure of the extraction collaborator, of  *)
(* whatever kind, ends the request with HTTP 500.                           *)
C3_ExtractionFailureIs500 ==
    (Done /\ Truthy(video_id) /\ calls = 1 /\ ~fetched) => outcome.status = 500

(* The ids following one of the given literals somewhere in str. *)
Occurrences(forms, str) ==
    {Group1(x[1], str, x[2]) :
        x \in {y \in forms \X (1..Len(str)) : MatchesAt(y[1], str, y[2])}}

AnyHostForms == {u_watch, u_shorts, L_youtu_be, u_embed, u_slash \o u_v}

HostedForms == {L_watch, L_shorts, L_youtu_be, L_embed, L_v}

(* C4 as stated: a string containing watch?v=ID, shorts/ID, youtu.be/ID,    *)
(* embed/ID or /v/ID, whatever precedes it, yields exactly ID (stated for   *)
(* the strings in which all such occurrences carry one ID); a string        *)
(* containing none of them yields None.                                     *)
C4_AnyHost ==
    IdExtracted =>
        LET occ == Occurrences(AnyHostForms, url)
        IN  /\ Cardinality(occ) = 1 => video_id \in occ
            /\ occ = {} => video_id = PyNone

(* C4 amended: a string containing youtube.com/watch?v=ID,                  *)
(* youtube.com/shorts/ID, youtu.be/ID, youtube.com/embed/ID or              *)
(* youtube.com/v/ID, whatever precedes it, yields the ID of such an         *)
(* occurrence (exactly ID when all occurrences carry it); a string          *)
(* containing none of these five forms yields None.                         *)
C4_HostedForms ==
    IdExtracted =>
        LET occ == Occurrences(HostedForms, url)
        IN  /\ occ # {} => video_id \in occ
            /\ occ = {} => video_id = PyNone

C4_Witness ==
    /\ IdExtracted
    /\ url = u_https \o u_www \o L_embed \o id_A \o u_amp_t
    /\ Occurrences(HostedForms, url) = {PyStr(id_A)}
    /\ video_id = PyStr(id_A)

(* C5: isShort has the truth value of (URL contains /shorts/) or (duration  *)
(* present and <= 60).                                                      *)
C5_IsShort ==
    Succeeded =>
        Truthy(outcome.data[1].isShort) =
            (\/ Contains(url, s_shorts_path)
             \/ Raw("duration").t = "int" /\ Raw("duration").i <= 60)

(* The string the claim describes for a duration of n seconds. *)
C6_Expected(n) ==
    LET h == n \div 3600
        m == (n % 3600) \div 60
        s == n % 60
    IN  <<"P", "T">>
            \o (IF h # 0 THEN DecStr(h) \o <<"H">> ELSE <<>>)
            \o (IF m # 0 THEN DecStr(m) \o <<"M">> ELSE <<>>)
            \o (IF s # 0 \/ (h = 0 /\ m = 0) THEN DecStr(s) \o <<"S">> ELSE <<>>)

(* C6: contentDetails.duration is "PT0S" for an absent, null or zero        *)
(* duration and otherwise PT{h}H{m}M{s}S with the zero components left out  *)
(* as the claim says; it is never the bare "PT"; 3600 gives "PT1H",         *)
(* 3661 "PT1H1M1S" and 65 "PT1M5S".                                         *)
C6_FormatDuration ==
    Succeeded =>
        LET d == Raw("duration")
            out == outcome.data[1].contentDetails.duration
        IN  /\ out.t = "str"
            /\ out.s # <<"P", "T">>
            /\ (d \in {Absent, PyNone} \/ d.i = 0) => out.s = <<"P", "T", "0", "S">>
            /\ (d.t = "int" /\ d.i > 0) => out.s = C6_Expected(d.i)
            /\ d = PyInt(3600) => out.s = <<"P", "T", "1", "H">>
            /\ d = PyInt(3661) => out.s = <<"P", "T", "1", "H", "1", "M", "1", "S">>
            /\ d = PyInt(65) => out.s = <<"P", "T", "1", "M", "5", "S">>
            /\ d = PyInt(59) => out.s = <<"P", "T", "5", "9", "S">>

C6_Witness ==
    /\ Succeeded
    /\ Raw("duration") = PyInt(3660)
    /\ outcome.data[1].contentDetails.duration.s = <<"P", "T", "1", "H", "1", "M">>

AllDigits(cs) == \A k \in 1..Len(cs) : cs[k] \in D09

(* A real calendar date written with the given month and day widths. *)
IsDateWith(cs, ml, dl) ==
    /\ Len(cs) = 4 + ml + dl
    /\ AllDigits(SubSeq(cs, 1, 4 + ml))
    /\ \/ AllDigits(SubSeq(cs, 5 + ml, 4 + ml + dl))
       \/ dl = 2 /\ cs[5 + ml] = " " /\ cs[6 + ml] \in D09
    /\ LET y == NumVal(SubSeq(cs, 1, 4))
           m == NumVal(SubSeq(cs, 5, 4 + ml))
           d == NumVal(SubSeq(cs, 5 + ml, 4 + ml + dl))
       IN  /\ y >= 1
           /\ m \in 1..12
           /\ d >= 1
           /\ d <= (IF m = 2 THEN (IF y % 4 = 0 /\ (y % 100 # 0 \/ y % 400 = 0) THEN 29 ELSE 28)
                    ELSE IF m \in {4, 6, 9, 11} THEN 30 ELSE 31)

(* A valid 8-digit YYYYMMDD string. *)
IsYYYYMMDD(v) == v.t = "str" /\ AllDigits(v.s) /\ IsDateWith(v.s, 2, 2)

(* A string strptime('%Y%m%d') accepts: months and days of one or two characters. *)
IsLenientDate(v) == v.t = "str" /\ \E ml \in {1, 2}, dl \in {1, 2} : IsDateWith(v.s, ml, dl)

(* YYYY-MM-DDT00:00:00Z from the eight digits. *)
Midnight(cs) ==
    SubSeq(cs, 1, 4) \o <<"-">> \o SubSeq(cs, 5, 6) \o <<"-">> \o SubSeq(cs, 7, 8)
        \o <<"T", "0", "0", ":", "0", "0", ":", "0", "0", "Z">>

(* C7 as stated: publishedAt is null when the upload date is absent, the    *)
(* midnight timestamp when it is a valid 8-digit YYYYMMDD string (checked   *)
(* here for years from 1000), and the raw value unchanged when it is        *)
(* present but no valid YYYYMMDD; the request does not fail.                *)
C7_PassThroughUnlessYYYYMMDD ==
    (Done /\ fetched) =>
        /\ outcome.status = 200
        /\ LET raw == Raw("upload_date")
               out == outcome.data[1].snippet.publishedAt
           IN  /\ raw = Absent => out = PyNone
               /\ (IsYYYYMMDD(raw) /\ NumVal(SubSeq(raw.s, 1, 4)) >= 1000) =>
                      out = PyStr(Midnight(raw.s))
               /\ (raw # Absent /\ ~IsYYYYMMDD(raw)) => out = raw

(* C7 amended: publishedAt is null when the upload date is absent, null or  *)
(* empty; the midnight timestamp when it is a valid 8-digit YYYYMMDD string *)
(* with a year from 1000; the raw value unchanged when it is present,       *)
(* non-empty and rejected by strptime (which accepts one-character months   *)
(* and days); in no case does the request fail.                             *)
C7_PublishedAt ==
    (Done /\ fetched) =>
        /\ outcome.status = 200
        /\ LET raw == Raw("upload_date")
               out == outcome.data[1].snippet.publishedAt
           IN  /\ raw \in {Absent, PyNone, PyStr(<<>>)} => out = PyNone
               /\ (IsYYYYMMDD(raw) /\ NumVal(SubSeq(raw.s, 1, 4)) >= 1000) =>
                      out = PyStr(Midnight(raw.s))
               /\ (raw \notin {Absent, PyNone, PyStr(<<>>)} /\ ~IsLenientDate(raw)) => out = raw

C7_Witness ==
    /\ Succeeded
    /\ Raw("upload_date") = PyStr(<<"2", "0", "2", "3", "1", "3", "0", "1">>)
    /\ outcome.data[1].snippet.publishedAt = Raw("upload_date")

(* C8: privacyStatus is "public" when availability is "public" or missing   *)
(* (absent or null) and the raw availability otherwise; always a string.    *)
C8_PrivacyStatus ==
    Succeeded =>
        LET av == Raw("availability")
            out == outcome.data[1].status.privacyStatus
        IN  /\ out.t = "str"
            /\ out = IF av \in {Absent, PyNone} THEN PyStr(s_public) ELSE av

C9_Families == << {L_watch, L_youtu_be, L_shorts}, {L_embed}, {L_v} >>

(* The positions at which family k matches. *)
C9_Positions(k, str) ==
    {p \in 1..Len(str) : \E f \in C9_Families[k] : MatchesAt(f, str, p)}

C9_Leftmost(k, str) ==
    CHOOSE p \in C9_Positions(k, str) : \A q \in C9_Positions(k, str) : p <= q

(* The id of family k's leftmost match. *)
C9_IdOf(k, str) ==
    LET p == C9_Leftmost(k, str)
        f == CHOOSE g \in C9_Families[k] : MatchesAt(g, str, p)
    IN  Group1(f, str, p)

(* C9: the first family in list order that matches anywhere in the URL      *)
(* wins, even when a later family matches further left; within the family   *)
(* the leftmost match gives the id.                                         *)
C9_FamilyPriority ==
    IdExtracted =>
        video_id =
            IF C9_Positions(1, url) # {} THEN C9_IdOf(1, url)
            ELSE IF C9_Positions(2, url) # {} THEN C9_IdOf(2, url)
            ELSE IF C9_Positions(3, url) # {} THEN C9_IdOf(3, url)
            ELSE PyNone

C9_Witness ==
    /\ IdExtracted
    /\ C9_Positions(1, url) # {}
    /\ C9_Positions(2, url) # {}
    /\ C9_Leftmost(2, url) < C9_Leftmost(1, url)
    /\ C9_IdOf(2, url) # C9_IdOf(1, url)
    /\ video_id = C9_IdOf(1, url)

SectionKeys ==
    [snippet |-> {"publishedAt", "channelId", "channelUrl", "title", "description",
                  "thumbnails", "channelTitle", "categoryId", "liveBroadcastContent",
                  "defaultLanguage", "localized", "defaultAudioLanguage", "tags"},
     statistics |-> {"viewCount", "likeCount", "favoriteCount", "commentCount"},
     status |-> {"uploadStatus", "privacyStatus", "license", "embeddable",
                 "publicStatsViewable", "madeForKids"},
     contentDetails |-> {"duration", "durationSeconds", "dimension", "definition", "caption",
                         "licensedContent", "contentRating", "projection"},
     player |-> {"embedHtml"},
     channel |-> {"id", "title", "customUrl", "subscriberCount", "thumbnails"},
     additionalInfo |-> {"ageRestricted", "availableCountries", "webpage_url", "originalUrl"}]

(* C10: a request ends in exactly one of: success with a complete response  *)
(* built from the one raw record the collaborator returned, HTTP 400, or    *)
(* HTTP 500; nothing is answered before that, and the collaborator is       *)
(* invoked at most once.                                                    *)
C10_ThreeOutcomes ==
    /\ calls <= 1
    /\ ~Done => outcome = Pending
    /\ Done =>
        \/ /\ outcome.status = 200
           /\ outcome.success
           /\ fetched
           /\ calls = 1
           /\ Len(outcome.data) = 1
           /\ DOMAIN outcome.data[1] = TopLevelKeys
           /\ \A k \in DOMAIN SectionKeys : DOMAIN outcome.data[1][k] = SectionKeys[k]
           /\ outcome.data[1].videoId = video_id
           /\ outcome.data[1].contentDetails.durationSeconds = Get(info, "duration", PyInt(0))
        \/ /\ outcome.status = 400
           /\ ~outcome.success
           /\ outcome.data = <<>>
        \/ /\ outcome.status = 500
           /\ ~outcome.success
           /\ outcome.data = <<>>

C10_Witness ==
    /\ Succeeded
    /\ outcome.success
    /\ calls = 1
    /\ fetched
    /\ info = ScenarioInfo
    /\ outcome.data[1].statistics.viewCount = PyStr(<<"1", "0", "0">>)
    /\ outcome.data[1].contentDetails.duration = PyStr(<<"P", "T", "2", "M", "5", "S">>)
    /\ outcome.data[1].snippet.publishedAt =
           PyStr(<<"2", "0", "2", "3", "-", "0", "6", "-", "1", "5", "T", "0", "0", ":", "0",
                   "0", ":", "0", "0", "Z">>)

=============================================================================
